---- MODULE Spec2Model ----
(***************************************************************************)
(* Model of the Hyperliquid webhook relay bot (src/app.py).                *)
(*                                                                         *)
(* Units.  Python floats are modelled by fixed-point integers:             *)
(*   money (withdrawable balance, prices)  : cents      (1    = $0.01)     *)
(*   sizes (position szi, order quantity)  : 1e-5 ETH   (10   = 0.0001)    *)
(* Absent Python values are modelled by the strings "ABSENT" (a missing    *)
(* dict key / environment variable), "UNSET" (an attribute never assigned, *)
(* reading it raises AttributeError) and "NONE" (the value None).          *)
(***************************************************************************)
EXTENDS Integers, Sequences, FiniteSets, TLC

\* ------------------------------------------------------------ bounds
\* longest assetPositions list the exchange reports at start
MaxPos == 2

\* ------------------------------------------------------------ program constants
\* abs(size) > 0.0001, in 1e-5 ETH
DustThreshold == 10
\* withdrawable <= 1, in cents
MinBalance == 100
\* withdrawable * 0.99, in percent
UtilizationPct == 99
\* return 3000.0, in cents
FallbackPrice == 300000
\* round(position_size, 4): one step of the 4th decimal, in 1e-5 ETH
SizeStep == 10

symbol == "ETH"
webhook_secret == "s3cret"
valid_actions == {"buy", "sell", "close"}

\* the two webhook requests in flight (Flask serves each request on its own thread)
Req == {"r1", "r2"}

VARIABLES
    private_key, account, wallet_address,   \* HyperliquidBot fields set by __init__
    exchange_positions, withdrawable,       \* the exchange: what /info clearinghouseState reports
    all_mids,                               \* the exchange: what /info allMids answers
    pc,                                     \* each request's position in its handler
    data,                                   \* webhook(): request.get_json()
    action,                                 \* process_signal: action
    account_state_c, idx, closed_positions, \* close_all_positions locals
    close_result,                           \* process_signal: close_result
    account_state_o, eth_price, position_size, \* place_order / calculate_position_size locals
    open_result,                            \* what place_order returned
    result,                                 \* what process_signal returned
    http,                                   \* the HTTP response of the request
    orders,                                 \* every POST sent to <api_url>/exchange, in order
    n_info,                                 \* per request: POSTs sent to <api_url>/info
    close_done_at,                          \* history, per request: Len(orders) when its
                                            \* close-all returned (-1 before)
    clean_at_entry                          \* history, per request: no tracked position was
                                            \* open when its close-all was called

vars == << private_key, account, wallet_address, exchange_positions, withdrawable,
           all_mids, pc, data, action, account_state_c, idx, closed_positions,
           close_result, account_state_o, eth_price, position_size, open_result,
           result, http, orders, n_info, close_done_at, clean_at_entry >>

config == << private_key, account, wallet_address >>
market == << withdrawable, all_mids >>
close_locals == << account_state_c, idx, closed_positions >>
open_locals == << account_state_o, eth_price, position_size >>

\* ------------------------------------------------------------ helpers
Abs(x) == IF x < 0 THEN -x ELSE x

\* Python round(): the nearest integer to n/d (d > 0, n >= 0), ties to even.  A
\* quotient that is an exact decimal tie is rounded by Python on its binary float,
\* which may fall on either side; the balances and prices drawn below agree with the
\* float computation on every pair.
RoundHalfEven(n, d) ==
    LET q == n \div d
        rem == n % d
    IN  IF 2 * rem < d THEN q
        ELSE IF 2 * rem > d THEN q + 1
        ELSE IF q % 2 = 0 THEN q ELSE q + 1

\* str.lower() on the action strings the model sends
Lower(s) ==
    CASE s = "BUY" -> "buy"
      [] s = "Sell" -> "sell"
      [] OTHER -> s

\* ------------------------------------------------------------ values
NoResult == [status |-> "unset", message |-> "", has_list |-> FALSE,
             closed_positions |-> << >>, size |-> 0]

ErrorResult(msg) == [status |-> "error", message |-> msg, has_list |-> FALSE,
                     closed_positions |-> << >>, size |-> 0]

SimulatedResult(msg) == [status |-> "simulated", message |-> msg, has_list |-> FALSE,
                         closed_positions |-> << >>, size |-> 0]

NoHttp == [route |-> "", code |-> 0, body |-> "", wallet |-> ""]

NoneState == [none |-> TRUE, has_positions |-> FALSE, assetPositions |-> << >>,
              withdrawable |-> 0]

\* ------------------------------------------------------------ HyperliquidBot.__init__
\* self.account after __init__, by the HYPERLIQUID_PRIVATE_KEY given
init_account(key) ==
    CASE key = "ABSENT" -> "UNSET"
      [] key = "INVALID" -> "NONE"
      [] OTHER -> "ACCT"

\* self.wallet_address after __init__
init_wallet_address(key) ==
    CASE key = "ABSENT" -> "UNSET"
      [] key = "INVALID" -> "NONE"
      [] OTHER -> "0xWALLET"

\* `not self.private_key or not self.account` (or short-circuits: account is read
\* only when a key is configured, and then __init__ has assigned it)
IsSimulation_never == FALSE

IsSimulation == IF private_key = "ABSENT" THEN TRUE ELSE account = "NONE"

\* ------------------------------------------------------------ sign_l1_action
\* sig is the outcome of account.sign_message: "ok" or "raise"
sign_l1_action(sig) ==
    IF IsSimulation THEN "SIMULATION_SIGNATURE"
    ELSE IF sig = "ok" THEN "0xSIG" ELSE "NONE"

\* ------------------------------------------------------------ validate_webhook
\* <<is_valid, message>>, or <<FALSE, "RAISED">> when data['action'].lower() raises
validate_webhook_no_passphrase(d) ==
    IF d.kind # "dict" THEN << FALSE, "Invalid JSON data" >>
    ELSE IF d.action = "ABSENT" THEN << FALSE, "Missing action" >>
    ELSE IF d.action = "NONSTR" THEN << FALSE, "RAISED" >>
    ELSE IF Lower(d.action) \notin valid_actions THEN << FALSE, "Invalid action. Must be one of: ['buy', 'sell', 'close']" >>
    ELSE << TRUE, "Valid" >>

validate_webhook(d) ==
    IF d.kind # "dict" THEN << FALSE, "Invalid JSON data" >>
    ELSE IF d.passphrase = "ABSENT" THEN << FALSE, "Missing passphrase" >>
    ELSE IF d.passphrase # webhook_secret THEN << FALSE, "Invalid passphrase" >>
    ELSE IF d.action = "ABSENT" THEN << FALSE, "Missing action" >>
    ELSE IF d.action = "NONSTR" THEN << FALSE, "RAISED" >>
    ELSE IF Lower(d.action) \notin valid_actions THEN << FALSE, "Invalid action. Must be one of: ['buy', 'sell', 'close']" >>
    ELSE << TRUE, "Valid" >>

\* ------------------------------------------------------------ get_account_state
\* whether get_account_state reaches requests.post (self.wallet_address is truthy;
\* reading an unset attribute raises inside the try and yields None)
account_query_sent == wallet_address \notin {"UNSET", "NONE"}

\* the value get_account_state returns; outcome is what the POST to /info does
get_account_state(outcome) ==
    IF ~account_query_sent THEN NoneState
    ELSE IF outcome \in {"exception", "non200", "badjson"} THEN NoneState
    ELSE IF outcome = "nokey"
         THEN [none |-> FALSE, has_positions |-> FALSE, assetPositions |-> << >>,
               withdrawable |-> withdrawable]
    ELSE [none |-> FALSE, has_positions |-> TRUE, assetPositions |-> exchange_positions,
          withdrawable |-> withdrawable]

\* ------------------------------------------------------------ get_eth_price
get_eth_price(resp) ==
    IF resp.status = "ok" /\ Len(resp.mids) > 0 /\ resp.mids[1] > 0
    THEN resp.mids[1]
    ELSE FallbackPrice

\* ------------------------------------------------------------ calculate_position_size
\* usable_balance / eth_price in 1e-4 ETH is (w * 99 / 100) / p * 10^4 = w * 99 * 100 / p
calculate_position_size_truncating(state, resp) ==
    IF state.none THEN 0
    ELSE IF state.withdrawable <= MinBalance THEN 0
    ELSE SizeStep * ((state.withdrawable * UtilizationPct * 100)
                     \div get_eth_price(resp))

calculate_position_size(state, resp) ==
    IF state.none THEN 0
    ELSE IF state.withdrawable <= MinBalance THEN 0
    ELSE SizeStep * RoundHalfEven(state.withdrawable * UtilizationPct * 100,
                                  get_eth_price(resp))

\* ------------------------------------------------------------ the exchange
\* a reduce-only market order accepted for the position at index i only decreases
\* that position, by at most the order's size, and never reverses it
fill_close(positions, i, is_buy, size) ==
    LET cur == positions[i].szi
        new == IF is_buy /\ cur < 0 THEN cur + (IF size < -cur THEN size ELSE -cur)
               ELSE IF ~is_buy /\ cur > 0 THEN cur - (IF size < cur THEN size ELSE cur)
               ELSE cur
    IN  [positions EXCEPT ![i] = [@ EXCEPT !.szi = new]]

HasCoin(positions, c) == \E i \in 1..Len(positions) : positions[i].coin = c

FirstCoin(positions, c) ==
    CHOOSE i \in 1..Len(positions) :
        /\ positions[i].coin = c
        /\ \A j \in 1..(i - 1) : positions[j].coin # c

\* a market order accepted for the tracked coin is netted into its position
fill_open(positions, is_buy, size) ==
    LET delta == IF is_buy THEN size ELSE -size
    IN  IF HasCoin(positions, symbol)
        THEN [positions EXCEPT ![FirstCoin(positions, symbol)] =
                                   [@ EXCEPT !.szi = @ + delta]]
        ELSE Append(positions, [coin |-> symbol, szi |-> delta])

\* ------------------------------------------------------------ input domains
Keys == {"ABSENT", "INVALID", "VALID"}

PositionValues ==
    { [coin |-> "ETH", szi |-> -20000], [coin |-> "ETH", szi |-> 30000],
      [coin |-> "ETH", szi |-> 10], [coin |-> "BTC", szi |-> 5000] }

PositionLists == UNION { [1..n -> PositionValues] : n \in 0..MaxPos }

Balances == {100, 100000}

\* positions in place while two requests overlap
RacePositionLists ==
    { << >>, << [coin |-> "ETH", szi |-> 30000] >>, << [coin |-> "ETH", szi |-> -20000] >> }

Mids == { [status |-> "exception", mids |-> << >>],
          [status |-> "ok", mids |-> << 200000 >>] }

Alerts ==
    [kind : {"dict"}, passphrase : {"ABSENT", "wrong", webhook_secret},
     action : {"ABSENT", "NONSTR", "hold", "buy", "Sell", "close"}]
    \cup { [kind |-> "notdict", passphrase |-> "ABSENT", action |-> "ABSENT"],
           [kind |-> "empty", passphrase |-> "ABSENT", action |-> "ABSENT"],
           [kind |-> "undecodable", passphrase |-> "ABSENT", action |-> "ABSENT"] }

InfoOutcomes == {"exception", "non200", "badjson", "nokey", "ok"}
\* answers of POST /exchange to a close order as close_all_positions tells them
\* apart: status 200 (the body is never parsed), another status, or requests.post
\* raising (timeout, connection error)
ExchangeOutcomes == {"ok200", "non200", "exception"}
\* answers to an open order as place_order tells them apart: a 200 answer is parsed
\* with response.json(), which raises on a body that is not JSON
OpenExchangeOutcomes == {"ok200", "ok200_badjson", "non200", "exception"}
SignOutcomes == {"ok", "raise"}

\* ------------------------------------------------------------ initial state
InitRequests ==
    /\ pc = [r \in Req |-> "idle"]
    /\ data = [r \in Req |-> [kind |-> "empty", passphrase |-> "ABSENT", action |-> "ABSENT"]]
    /\ action = [r \in Req |-> ""]
    /\ account_state_c = [r \in Req |-> NoneState]
    /\ idx = [r \in Req |-> 0]
    /\ closed_positions = [r \in Req |-> << >>]
    /\ close_result = [r \in Req |-> NoResult]
    /\ account_state_o = [r \in Req |-> NoneState]
    /\ eth_price = [r \in Req |-> 0]
    /\ position_size = [r \in Req |-> 0]
    /\ open_result = [r \in Req |-> NoResult]
    /\ result = [r \in Req |-> NoResult]
    /\ http = [r \in Req |-> NoHttp]
    /\ orders = << >>
    /\ n_info = [r \in Req |-> 0]
    /\ close_done_at = [r \in Req |-> -1]
    /\ clean_at_entry = [r \in Req |-> FALSE]

InitConfig(keys) ==
    /\ private_key \in keys
    /\ account = init_account(private_key)
    /\ wallet_address = init_wallet_address(private_key)

Init ==
    /\ InitConfig(Keys)
    /\ exchange_positions \in RacePositionLists
    /\ withdrawable \in Balances
    /\ all_mids \in Mids
    /\ InitRequests

InitSeq ==
    /\ InitConfig(Keys)
    /\ exchange_positions \in PositionLists
    /\ withdrawable \in Balances
    /\ all_mids \in Mids
    /\ InitRequests

\* ------------------------------------------------------------ webhook responses
\* webhook(): 200 for success/simulated, 400 otherwise
webhook_response(res) ==
    [route |-> "/webhook",
     code |-> IF res.status \in {"success", "simulated"} THEN 200 ELSE 400,
     body |-> res.status, wallet |-> ""]

\* process_signal returns res: webhook() answers and the request is over
Return(r, res) ==
    /\ result' = [result EXCEPT ![r] = res]
    /\ http' = [http EXCEPT ![r] = webhook_response(res)]
    /\ pc' = [pc EXCEPT ![r] = "done"]

CloseAllReturns_abort_on_error(r, res) ==
    /\ close_result' = [close_result EXCEPT ![r] = res]
    /\ close_done_at' = [close_done_at EXCEPT ![r] = Len(orders')]
    /\ IF action'[r] = "close" \/ res.status = "error"
       THEN Return(r, res)
       ELSE /\ pc' = [pc EXCEPT ![r] = "sleep"]
            /\ UNCHANGED << result, http >>

\* close_all_positions returns res to process_signal: a close alert returns it,
\* a buy/sell alert logs it and goes on to time.sleep(2)
CloseAllReturns(r, res) ==
    /\ close_result' = [close_result EXCEPT ![r] = res]
    /\ close_done_at' = [close_done_at EXCEPT ![r] = Len(orders')]
    /\ IF action'[r] = "close"
       THEN Return(r, res)
       ELSE /\ pc' = [pc EXCEPT ![r] = "sleep"]
            /\ UNCHANGED << result, http >>

\* place_order returns res to process_signal, which returns it
PlaceOrderReturns(r, res) ==
    /\ open_result' = [open_result EXCEPT ![r] = res]
    /\ Return(r, res)

\* ------------------------------------------------------------ close_all_positions
\* the close order built for the snapshot's position i: asset, side, size, reduce-only
close_order(r, i) ==
    LET size == account_state_c[r].assetPositions[i].szi
    IN  [req |-> r, kind |-> "close", pos |-> i,
         b |-> size < 0, s |-> Abs(size), r |-> TRUE, t |-> "market"]

qualifies_any_coin(position) == Abs(position.szi) > DustThreshold

\* `position['position']['coin'] == self.symbol` and `abs(size) > 0.0001`
qualifies(position) ==
    /\ position.coin = symbol
    /\ Abs(position.szi) > DustThreshold

closed_entry(order) ==
    [symbol |-> symbol, size |-> order.s, side |-> IF order.b THEN "buy" ELSE "sell"]

\* the message f"Closed {len(closed_positions)} positions" is kept without its count,
\* which is Len(closed)
SuccessClosed(closed) ==
    [status |-> "success", message |-> "Closed positions", has_list |-> TRUE,
     closed_positions |-> closed, size |-> 0]

SuccessNoPositions ==
    [status |-> "success", message |-> "No positions to close", has_list |-> FALSE,
     closed_positions |-> << >>, size |-> 0]

\* no position of the tracked coin is open (above the dust threshold)
NoOpenTracked(positions) ==
    \A i \in 1..Len(positions) :
        positions[i].coin = symbol => Abs(positions[i].szi) <= DustThreshold

\* entry of close_all_positions: the simulation check, before any request
CloseAllEnter(r) ==
    /\ clean_at_entry' = [clean_at_entry EXCEPT ![r] = NoOpenTracked(exchange_positions)]
    /\ IF IsSimulation
       THEN /\ UNCHANGED orders
            /\ CloseAllReturns(r, SimulatedResult("All positions closed (simulation)"))
       ELSE /\ pc' = [pc EXCEPT ![r] = "close_get_account"]
            /\ UNCHANGED << close_result, close_done_at, result, http, orders >>

\* account_state = self.get_account_state() and the test that follows it
CloseGetAccount(r, outcome) ==
    /\ pc[r] = "close_get_account"
    /\ n_info' = [n_info EXCEPT ![r] = @ + (IF account_query_sent THEN 1 ELSE 0)]
    /\ LET state == get_account_state(outcome)
       IN  /\ account_state_c' = [account_state_c EXCEPT ![r] = state]
           /\ UNCHANGED << action, orders >>
           /\ IF state.none \/ ~state.has_positions
              THEN /\ CloseAllReturns(r, SuccessNoPositions)
                   /\ UNCHANGED << idx, closed_positions >>
              ELSE /\ idx' = [idx EXCEPT ![r] = 1]
                   /\ closed_positions' = [closed_positions EXCEPT ![r] = << >>]
                   /\ pc' = [pc EXCEPT ![r] = "close_loop"]
                   /\ UNCHANGED << close_result, close_done_at, result, http >>
    /\ UNCHANGED << config, market, clean_at_entry, exchange_positions, data, open_locals, open_result >>

\* one iteration of `for position in account_state['assetPositions']`, or the
\* return that follows the loop
CloseLoop(r, sig, outcome) ==
    /\ pc[r] = "close_loop"
    /\ UNCHANGED << config, market, clean_at_entry, data, action, account_state_c, open_locals,
                    open_result, n_info >>
    /\ IF idx[r] > Len(account_state_c[r].assetPositions)
       THEN /\ UNCHANGED << orders, exchange_positions, idx, closed_positions >>
            /\ CloseAllReturns(r, SuccessClosed(closed_positions[r]))
       ELSE IF ~qualifies(account_state_c[r].assetPositions[idx[r]])
       THEN /\ idx' = [idx EXCEPT ![r] = @ + 1]
            /\ UNCHANGED << orders, exchange_positions, closed_positions, pc,
                            close_result, close_done_at, result, http >>
       ELSE IF sign_l1_action(sig) = "NONE"
       THEN /\ UNCHANGED << orders, exchange_positions, idx, closed_positions >>
            /\ CloseAllReturns(r, ErrorResult("Failed to sign close order"))
       ELSE LET order == close_order(r, idx[r])
            IN  /\ orders' = Append(orders, order)
                /\ CASE outcome = "ok200" ->
                          /\ exchange_positions' =
                                 IF idx[r] <= Len(exchange_positions)
                                 THEN fill_close(exchange_positions, idx[r], order.b, order.s)
                                 ELSE exchange_positions
                          /\ closed_positions' =
                                 [closed_positions EXCEPT ![r] = Append(@, closed_entry(order))]
                          /\ idx' = [idx EXCEPT ![r] = @ + 1]
                          /\ UNCHANGED << pc, close_result, close_done_at, result, http >>
                     [] outcome = "non200" ->
                          /\ idx' = [idx EXCEPT ![r] = @ + 1]
                          /\ UNCHANGED << exchange_positions, closed_positions, pc,
                                          close_result, close_done_at, result, http >>
                     [] OTHER ->
                          /\ UNCHANGED << exchange_positions, idx, closed_positions >>
                          /\ CloseAllReturns(r, ErrorResult("exception"))

\* ------------------------------------------------------------ place_order
open_order(r, size) ==
    [req |-> r, kind |-> "open", pos |-> 0,
     b |-> (action[r] = "buy"), s |-> size, r |-> FALSE, t |-> "market"]

SuccessOrder(size) ==
    [status |-> "success", message |-> "Order placed", has_list |-> FALSE,
     closed_positions |-> << >>, size |-> size]

\* time.sleep(2) ends and place_order is entered: the simulation check
Sleep(r) ==
    /\ pc[r] = "sleep"
    /\ IF IsSimulation
       THEN PlaceOrderReturns(r, SimulatedResult(IF action[r] = "buy"
                                                 THEN "BUY order simulated"
                                                 ELSE "SELL order simulated"))
       ELSE /\ pc' = [pc EXCEPT ![r] = "open_get_account"]
            /\ UNCHANGED << open_result, result, http >>
    /\ UNCHANGED << config, market, clean_at_entry, exchange_positions, data, action, close_locals,
                    close_result, open_locals, orders, n_info, close_done_at >>

\* account_state = self.get_account_state(), its test, and calculate_position_size
\* up to the balance test (get_eth_price is the next request)
OpenGetAccount(r, outcome) ==
    /\ pc[r] = "open_get_account"
    /\ n_info' = [n_info EXCEPT ![r] = @ + (IF account_query_sent THEN 1 ELSE 0)]
    /\ LET state == get_account_state(outcome)
       IN  /\ account_state_o' = [account_state_o EXCEPT ![r] = state]
           /\ IF state.none
              THEN PlaceOrderReturns(r, ErrorResult("Could not get account state"))
              ELSE IF state.withdrawable <= MinBalance
              THEN PlaceOrderReturns(r, ErrorResult("Invalid position size - insufficient balance"))
              ELSE /\ pc' = [pc EXCEPT ![r] = "open_get_price"]
                   /\ UNCHANGED << open_result, result, http >>
    /\ UNCHANGED << config, market, clean_at_entry, exchange_positions, data, action, close_locals,
                    close_result, eth_price, position_size, orders, close_done_at >>

\* eth_price = self.get_eth_price(), the rest of calculate_position_size and the
\* `position_size <= 0` test of place_order
OpenGetPrice(r) ==
    /\ pc[r] = "open_get_price"
    /\ n_info' = [n_info EXCEPT ![r] = @ + 1]
    /\ eth_price' = [eth_price EXCEPT ![r] = get_eth_price(all_mids)]
    /\ position_size' = [position_size EXCEPT ![r] =
                             calculate_position_size(account_state_o[r], all_mids)]
    /\ IF position_size'[r] <= 0
       THEN PlaceOrderReturns(r, ErrorResult("Invalid position size - insufficient balance"))
       ELSE /\ pc' = [pc EXCEPT ![r] = "open_submit"]
            /\ UNCHANGED << open_result, result, http >>
    /\ UNCHANGED << config, market, clean_at_entry, exchange_positions, data, action, close_locals,
                    close_result, account_state_o, orders, close_done_at >>

\* sign_l1_action and requests.post to /exchange, and the return of place_order
OpenSubmit(r, sig, outcome) ==
    /\ pc[r] = "open_submit"
    /\ UNCHANGED << config, market, clean_at_entry, data, action, close_locals, close_result,
                    open_locals, n_info, close_done_at >>
    /\ IF sign_l1_action(sig) = "NONE"
       THEN /\ UNCHANGED << orders, exchange_positions >>
            /\ PlaceOrderReturns(r, ErrorResult("Failed to sign order"))
       ELSE LET order == open_order(r, position_size[r])
            IN  /\ orders' = Append(orders, order)
                /\ CASE outcome = "ok200" ->
                          /\ exchange_positions' =
                                 fill_open(exchange_positions, order.b, order.s)
                          /\ PlaceOrderReturns(r, SuccessOrder(order.s))
                     [] outcome = "ok200_badjson" ->
                          /\ exchange_positions' =
                                 fill_open(exchange_positions, order.b, order.s)
                          /\ PlaceOrderReturns(r, ErrorResult("exception"))
                     [] outcome = "non200" ->
                          /\ UNCHANGED exchange_positions
                          /\ PlaceOrderReturns(r, ErrorResult("Order failed"))
                     [] OTHER ->
                          /\ UNCHANGED exchange_positions
                          /\ PlaceOrderReturns(r, ErrorResult("exception"))

\* ------------------------------------------------------------ process_signal / webhook
\* a request is dispatched to its route as soon as it arrives: no handler takes a
\* lock or waits for the requests already being served
request_arrives_serialized(r) ==
    /\ pc[r] = "idle"
    /\ \A q \in Req \ {r} : pc[q] \in {"idle", "done", "gone"}

request_arrives(r) == pc[r] = "idle"

\* POST /webhook with body d: webhook() and process_signal up to the first request
\* to the exchange. A body request.get_json() cannot decode raises inside the
\* handler's try and is answered 500 without reaching process_signal
webhook(r, d) ==
    /\ request_arrives(r)
    /\ data' = [data EXCEPT ![r] = d]
    /\ UNCHANGED << config, market, exchange_positions, close_locals, open_locals,
                    open_result, n_info >>
    /\ IF d.kind = "undecodable"
       THEN /\ http' = [http EXCEPT ![r] = [route |-> "/webhook", code |-> 500,
                                             body |-> "exception", wallet |-> ""]]
            /\ pc' = [pc EXCEPT ![r] = "done"]
            /\ UNCHANGED << action, close_result, close_done_at, clean_at_entry,
                            result, orders >>
       ELSE IF d.kind = "empty"
       THEN /\ http' = [http EXCEPT ![r] = [route |-> "/webhook", code |-> 400,
                                             body |-> "No JSON data received",
                                             wallet |-> ""]]
            /\ pc' = [pc EXCEPT ![r] = "done"]
            /\ UNCHANGED << action, close_result, close_done_at, clean_at_entry,
                            result, orders >>
       ELSE LET v == validate_webhook(d)
            IN  IF ~v[1]
                THEN /\ Return(r, ErrorResult(v[2]))
                     /\ UNCHANGED << action, close_result, close_done_at,
                                     clean_at_entry, orders >>
                ELSE /\ action' = [action EXCEPT ![r] = Lower(d.action)]
                     /\ CloseAllEnter(r)

\* ------------------------------------------------------------ GET routes
\* GET /: reading bot.wallet_address raises when __init__ never assigned it, and
\* Flask answers the unhandled exception with 500
home(r) ==
    /\ request_arrives(r)
    /\ http' = [http EXCEPT ![r] =
                   IF wallet_address = "UNSET"
                   THEN [route |-> "/", code |-> 500, body |-> "Internal Server Error",
                         wallet |-> ""]
                   ELSE [route |-> "/", code |-> 200, body |-> "running",
                         wallet |-> IF wallet_address = "NONE" THEN "simulation"
                                    ELSE wallet_address]]
    /\ pc' = [pc EXCEPT ![r] = "done"]
    /\ UNCHANGED << config, market, clean_at_entry, exchange_positions, data, action, close_locals,
                    close_result, open_locals, open_result, result, orders, n_info,
                    close_done_at >>

\* GET /status: get_account_state (its result kept in account_state_o, the slot of the
\* request's account snapshot), then the same read inside the handler's try
status(r, outcome) ==
    /\ request_arrives(r)
    /\ n_info' = [n_info EXCEPT ![r] = @ + (IF account_query_sent THEN 1 ELSE 0)]
    /\ account_state_o' = [account_state_o EXCEPT ![r] = get_account_state(outcome)]
    /\ http' = [http EXCEPT ![r] =
                   IF wallet_address = "UNSET"
                   THEN [route |-> "/status", code |-> 500, body |-> "error",
                         wallet |-> ""]
                   ELSE [route |-> "/status", code |-> 200, body |-> "operational",
                         wallet |-> IF wallet_address = "NONE" THEN "simulation"
                                    ELSE wallet_address]]
    /\ pc' = [pc EXCEPT ![r] = "done"]
    /\ UNCHANGED << config, market, clean_at_entry, exchange_positions, data, action, close_locals,
                    close_result, eth_price, position_size, open_result, result, orders,
                    close_done_at >>

\* GET /health
health(r) ==
    /\ request_arrives(r)
    /\ http' = [http EXCEPT ![r] = [route |-> "/health", code |-> 200,
                                    body |-> "healthy", wallet |-> ""]]
    /\ pc' = [pc EXCEPT ![r] = "done"]
    /\ UNCHANGED << config, market, clean_at_entry, exchange_positions, data, action, close_locals,
                    close_result, open_locals, open_result, result, orders, n_info,
                    close_done_at >>

\* ------------------------------------------------------------ specifications
Step(r) ==
    \/ \E d \in Alerts : webhook(r, d)
    \/ \E outcome \in InfoOutcomes : CloseGetAccount(r, outcome)
    \/ \E sig \in SignOutcomes, outcome \in ExchangeOutcomes : CloseLoop(r, sig, outcome)
    \/ Sleep(r)
    \/ \E outcome \in InfoOutcomes : OpenGetAccount(r, outcome)
    \/ OpenGetPrice(r)
    \/ \E sig \in SignOutcomes, outcome \in OpenExchangeOutcomes : OpenSubmit(r, sig, outcome)
    \/ home(r)
    \/ \E outcome \in InfoOutcomes : status(r, outcome)
    \/ health(r)

\* requests are served concurrently, each on its own thread
Next == \E r \in Req : Step(r)

Spec == Init /\ [][Next]_vars

\* ------------------------------------------------------------ the position sizer alone
\* balances in cents: every amount up to MaxCents, and some large ones
MaxCents == 300

SizerBalances == (0..MaxCents) \cup {1000, 100000, 123456}

SizerMids ==
    { [status |-> "exception", mids |-> << >>],
      [status |-> "non200", mids |-> << >>],
      [status |-> "ok", mids |-> << >>],
      [status |-> "ok", mids |-> << 0 >>],
      [status |-> "ok", mids |-> << -500 >>],
      [status |-> "ok", mids |-> << 99 >>],
      [status |-> "ok", mids |-> << 330 >>],
      [status |-> "ok", mids |-> << 12345 >>],
      [status |-> "ok", mids |-> << 200000, 6000000 >>] }

InitSizer ==
    /\ InitConfig({"VALID"})
    /\ exchange_positions = << >>
    /\ withdrawable \in SizerBalances
    /\ all_mids \in SizerMids
    /\ InitRequests

\* bot.calculate_position_size(account_state) on a snapshot of the account just read
calculate(r) ==
    /\ pc[r] = "idle"
    /\ LET state == get_account_state("ok")
       IN  /\ account_state_o' = [account_state_o EXCEPT ![r] = state]
           /\ position_size' = [position_size EXCEPT ![r] =
                                    calculate_position_size(state, all_mids)]
           /\ IF ~state.none /\ state.withdrawable > MinBalance
              THEN /\ n_info' = [n_info EXCEPT ![r] = @ + 1]
                   /\ eth_price' = [eth_price EXCEPT ![r] = get_eth_price(all_mids)]
              ELSE UNCHANGED << n_info, eth_price >>
    /\ pc' = [pc EXCEPT ![r] = "sized"]
    /\ UNCHANGED << config, market, clean_at_entry, exchange_positions, data, action,
                    close_locals, close_result, open_result, result, http, orders,
                    close_done_at >>

NextSizer == \E r \in Req : calculate(r)

SpecSizer == InitSizer /\ [][NextSizer]_vars

\* requests served one at a time: r2 is the alert that arrives after r1 was answered
Exclusive(r) == IF r = "r1" THEN pc["r2"] = "idle" ELSE pc["r1"] = "gone"

\* the response was sent: the request and the locals of its handlers are discarded
Discard(r) ==
    /\ pc[r] = "done"
    /\ pc' = [pc EXCEPT ![r] = "gone"]
    /\ data' = [data EXCEPT ![r] = [kind |-> "empty", passphrase |-> "ABSENT",
                                     action |-> "ABSENT"]]
    /\ action' = [action EXCEPT ![r] = ""]
    /\ account_state_c' = [account_state_c EXCEPT ![r] = NoneState]
    /\ idx' = [idx EXCEPT ![r] = 0]
    /\ closed_positions' = [closed_positions EXCEPT ![r] = << >>]
    /\ close_result' = [close_result EXCEPT ![r] = NoResult]
    /\ account_state_o' = [account_state_o EXCEPT ![r] = NoneState]
    /\ eth_price' = [eth_price EXCEPT ![r] = 0]
    /\ position_size' = [position_size EXCEPT ![r] = 0]
    /\ open_result' = [open_result EXCEPT ![r] = NoResult]
    /\ result' = [result EXCEPT ![r] = NoResult]
    /\ http' = [http EXCEPT ![r] = NoHttp]
    /\ n_info' = [n_info EXCEPT ![r] = 0]
    /\ close_done_at' = [close_done_at EXCEPT ![r] = -1]
    /\ clean_at_entry' = [clean_at_entry EXCEPT ![r] = FALSE]
    /\ UNCHANGED << config, market, exchange_positions, orders >>

NextSeq ==
    \/ \E r \in Req : Exclusive(r) /\ Step(r)
    \/ \E r \in Req : Discard(r)

SpecSeq == InitSeq /\ [][NextSeq]_vars

\* ============================================================ claims
OrdersOf(r) == { i \in 1..Len(orders) : orders[i].req = r }

CloseOrdersOf(r) == { i \in OrdersOf(r) : orders[i].kind = "close" }

OpenOrdersOf(r) == { i \in OrdersOf(r) : orders[i].kind = "open" }

\* close_all_positions was called by r's process_signal and has returned
CloseAllReturned(r) == close_done_at[r] >= 0

BuySell(r) == action[r] \in {"buy", "sell"}

\* r's close-all has returned and its open order is not submitted yet
BetweenCloseAndOpen(r) ==
    pc[r] \in {"sleep", "open_get_account", "open_get_price", "open_submit"}

\* ------------------------------------------------------------ C1
BadPassphrase(r) ==
    /\ data[r].kind \in {"dict", "notdict"}
    /\ data[r].passphrase # webhook_secret

\* C1: an alert whose passphrase is absent or differs from the shared secret, whatever
\* its action, makes process_signal return an error Result, and that call sends no
\* request to the info endpoint and none to the order endpoint.
C1_BadPassphraseRejected ==
    \A r \in Req :
        BadPassphrase(r) =>
            /\ pc[r] = "done"
            /\ result[r].status = "error"
            /\ http[r].code = 400
            /\ n_info[r] = 0
            /\ OrdersOf(r) = {}

C1_Witness ==
    \E r \in Req :
        /\ private_key = "VALID"
        /\ data[r].kind = "dict"
        /\ data[r].passphrase = "wrong"
        /\ data[r].action = "buy"
        /\ pc[r] = "done"
        /\ result[r].status = "error"
        /\ n_info[r] = 0

\* ------------------------------------------------------------ C2
\* C2: with no signing credential configured, over any requests served, no order is
\* ever sent to the order endpoint, and close_all_positions and place_order return
\* status "simulated" whenever they are called.
C2_SimulationNeverSubmits ==
    private_key = "ABSENT" =>
        /\ orders = << >>
        /\ \A r \in Req :
            /\ action[r] # "" => close_result[r].status = "simulated"
            /\ (BuySell(r) /\ pc[r] = "done") => open_result[r].status = "simulated"
            /\ close_result[r].status \in {"unset", "simulated"}
            /\ open_result[r].status \in {"unset", "simulated"}

C2_Witness ==
    /\ private_key = "ABSENT"
    /\ \E r, q \in Req :
        /\ r # q
        /\ pc[r] = "done" /\ action[r] = "buy"
        /\ open_result[r].status = "simulated"
        /\ pc[q] = "done" /\ action[q] = "close"
        /\ result[q].status = "simulated"

\* ------------------------------------------------------------ C3
\* C3: for a valid buy or sell alert, close-all has returned, with all its close
\* orders sent, before the request sends an open order; place_order is called
\* whatever close-all returned; and process_signal returns place_order's Result.
C3_CloseAllThenOpen ==
    \A r \in Req :
        BuySell(r) =>
            /\ \A i \in OpenOrdersOf(r) : CloseAllReturned(r) /\ i > close_done_at[r]
            /\ \A i \in CloseOrdersOf(r) : CloseAllReturned(r) => i <= close_done_at[r]
            /\ BetweenCloseAndOpen(r) =>
                   CloseAllReturned(r) /\ close_result[r].status # "unset"
            /\ pc[r] = "done" =>
                   /\ close_result[r].status # "unset"
                   /\ open_result[r].status # "unset"
                   /\ result[r] = open_result[r]

C3_Witness ==
    \E r \in Req :
        /\ BuySell(r)
        /\ pc[r] = "done"
        /\ close_result[r].status = "error"
        /\ CloseOrdersOf(r) # {}
        /\ OpenOrdersOf(r) # {}
        /\ result[r].status = "success"

\* ------------------------------------------------------------ C4
\* r's close-all fetched a snapshot holding a position list, and has returned
ClosedWithSnapshot(r) ==
    /\ CloseAllReturned(r)
    /\ account_state_c[r].has_positions

CloseOrdersFor(r, i) == { k \in CloseOrdersOf(r) : orders[k].pos = i }

\* the order for position i itself could not be signed, so there was nothing to submit
OwnSigningFailed(r, i) ==
    /\ close_result[r].message = "Failed to sign close order"
    /\ idx[r] = i

\* C4: close_all submits exactly one reduce-only market order, opposite to the held
\* size and of its absolute size, for each position of the fetched snapshot that is on
\* the tracked symbol and above the dust threshold, no order for the other positions,
\* and never an order that is not reduce-only.  (A position whose own order could
\* not be signed is not held against the claim.)
C4_OneCloseOrderPerPosition ==
    \A r \in Req :
        ClosedWithSnapshot(r) =>
            LET snap == account_state_c[r].assetPositions
            IN  /\ \A i \in 1..Len(snap) :
                      IF snap[i].coin = symbol /\ Abs(snap[i].szi) > DustThreshold
                      THEN /\ OwnSigningFailed(r, i) \/ Cardinality(CloseOrdersFor(r, i)) = 1
                           /\ \A k \in CloseOrdersFor(r, i) :
                                  /\ orders[k].b = (snap[i].szi < 0)
                                  /\ orders[k].s = Abs(snap[i].szi)
                                  /\ orders[k].t = "market"
                      ELSE CloseOrdersFor(r, i) = {}
                /\ \A k \in CloseOrdersOf(r) : orders[k].r = TRUE

\* ------------------------------------------------------------ C5
\* C5: a failed close submission (non-200, exception, signing failure) is skipped and
\* is not fatal: close_all still returns success with the list of closed positions.
C5_FailedCloseIsNotFatal ==
    \A r \in Req :
        ClosedWithSnapshot(r) =>
            /\ close_result[r].status = "success"
            /\ close_result[r].has_list
            /\ idx[r] > Len(account_state_c[r].assetPositions)

\* ------------------------------------------------------------ C6
\* C6: when the account query fails, close_all and place_order return an error Result;
\* a failed account read is never reported as a success.
C6_FailedAccountReadIsError ==
    \A r \in Req :
        /\ (close_result[r].status \notin {"unset", "simulated"} /\ account_state_c[r].none)
               => close_result[r].status = "error"
        /\ (open_result[r].status \notin {"unset", "simulated"} /\ account_state_o[r].none)
               => open_result[r].status = "error"

\* ------------------------------------------------------------ C7
\* size, in steps of the 4th decimal, is a nearest integer to b * 0.99 / p * 10^4
NearestSize(size, b, p) ==
    /\ size % SizeStep = 0
    /\ 2 * Abs((size \div SizeStep) * p - b * UtilizationPct * 100) <= p

\* C7 as stated: for every balance b > 0 and price p > 0 the size is
\* round(b * 0.99 / p, 4), also for 0 < b <= 1; p is the price the oracle gives
\* for the market the sizer ran on (always positive, by the fallback).
C7_SizeIsRoundedForEveryPositiveBalance ==
    \A r \in Req :
        (pc[r] = "sized" /\ withdrawable > 0 /\ get_eth_price(all_mids) > 0) =>
            NearestSize(position_size[r], withdrawable, get_eth_price(all_mids))

\* C7 amended: for every balance b > 1 the sizer fetches a price p > 0 and the size
\* is round(b * 0.99 / p, 4); for every balance b <= 1 the size is 0 and no price
\* is fetched.
C7_SizeIsRoundedAboveMinimum ==
    \A r \in Req :
        pc[r] = "sized" =>
            /\ withdrawable > MinBalance =>
                   /\ n_info[r] = 1
                   /\ eth_price[r] = get_eth_price(all_mids)
                   /\ eth_price[r] > 0
                   /\ NearestSize(position_size[r], withdrawable, eth_price[r])
            /\ withdrawable <= MinBalance =>
                   /\ position_size[r] = 0
                   /\ n_info[r] = 0

C7_Witness ==
    \E r \in Req :
        /\ pc[r] = "sized"
        /\ withdrawable = 250
        /\ n_info[r] = 1
        /\ eth_price[r] = 12345
        /\ position_size[r] = 2000

\* ------------------------------------------------------------ C8
\* C8 as stated: a close_all called when every tracked position is already closed
\* submits no order and returns success with an empty closed-positions list.
C8_SecondCloseAllIsEmptySuccess ==
    \A r \in Req :
        (CloseAllReturned(r) /\ clean_at_entry[r]) =>
            /\ CloseOrdersOf(r) = {}
            /\ close_result[r].status = "success"
            /\ close_result[r].has_list
            /\ close_result[r].closed_positions = << >>

\* C8 amended: such a close_all submits no order; with a signing credential and an
\* account query that returned a position list it returns success with an empty
\* closed-positions list; without a signing credential it returns "simulated".
C8_SecondCloseAllSubmitsNothing ==
    \A r \in Req :
        (CloseAllReturned(r) /\ clean_at_entry[r]) =>
            /\ CloseOrdersOf(r) = {}
            /\ (private_key = "VALID" /\ account_state_c[r].has_positions) =>
                   /\ close_result[r].status = "success"
                   /\ close_result[r].has_list
                   /\ close_result[r].closed_positions = << >>
            /\ private_key = "ABSENT" => close_result[r].status = "simulated"

\* the second call: an earlier request's close order was filled, and this one found
\* the closed position in its snapshot
C8_Witness ==
    /\ private_key = "VALID"
    /\ pc["r1"] = "gone"
    /\ \E k \in OrdersOf("r1") : orders[k].kind = "close"
    /\ CloseAllReturned("r2")
    /\ clean_at_entry["r2"]
    /\ action["r2"] = "close"
    /\ \E i \in 1..Len(account_state_c["r2"].assetPositions) :
           account_state_c["r2"].assetPositions[i] = [coin |-> symbol, szi |-> 0]
    /\ result["r2"].status = "success"
    /\ result["r2"].has_list
    /\ result["r2"].closed_positions = << >>

\* ------------------------------------------------------------ C9
\* C9: requests are not mutually excluded: a request that is between its close-all and
\* its open step never keeps another request from arriving or from taking its next
\* step, so the other's orders can fall between the two.
C9_NoMutualExclusion ==
    \A r, q \in Req :
        (r # q /\ BetweenCloseAndOpen(r) /\ pc[q] # "done") => ENABLED Step(q)

\* both open orders are submitted after both close-all steps have returned
C9_Witness ==
    \E r, q \in Req :
        /\ r # q
        /\ BuySell(r) /\ BuySell(q)
        /\ CloseAllReturned(r) /\ CloseAllReturned(q)
        /\ \E i \in OpenOrdersOf(q), j \in OpenOrdersOf(r) :
               /\ i > close_done_at[r] /\ i > close_done_at[q]
               /\ i < j

\* ------------------------------------------------------------ C10
\* C10: with no signing credential configured, GET / and GET /status answer 200 with a
\* status document whose wallet is "simulation".
C10_StatusRoutesReportSimulation ==
    \A r \in Req :
        (private_key = "ABSENT" /\ pc[r] = "done" /\ http[r].route \in {"/", "/status"}) =>
            /\ http[r].code = 200
            /\ http[r].wallet = "simulation"
====
